---- MODULE Spec2Model ----
(***************************************************************************)
(* Model of the relationship traversal and user aggregation logic of       *)
(* AIMSClientInstance (src/karma.conf.js):                                 *)
(*   getUsersFromAccounts             fan-out over Promise.all             *)
(*   getUsersFromManagedRelationship  recursive ascent of 'managing'       *)
(*   getAccountsIdsByRelationship     topology fetch + getIds flattening   *)
(* The HTTP client (this.client.get) is the environment: every await on it *)
(* is resolved or rejected by a separate step.                             *)
(***************************************************************************)
EXTENDS Integers, Sequences, FiniteSets, TLC

\* ------------------------------------------------------------------ bounds
MaxAccounts == 3      \* longest accountList handed to getUsersFromAccounts
MaxDepth == 3         \* longest 'managing' chain the environment serves
MaxCands == 2         \* most accounts in one 'managing' reply
MaxNodes == 4         \* most topology nodes below the root

\* --------------------------------------------------------------- constants
Radix == 10

\* ------------------------------------------------------------- data domain
\* Account ids are strings of decimal digits, kept as sequences of digits.
Ids == { <<9>>, <<1, 0>>, <<0, 9>> }
TopoIds == { <<9>>, <<1, 0>> }
None == <<>>

\* What GET /users yields per account (users.users of the reply); AIMSUser
\* records are opaque to the code, a user is a name.
UserTables ==
  { [a \in Ids |-> IF a = <<9>> THEN <<"u1">>
                   ELSE IF a = <<1, 0>> THEN <<"u2", "u1">> ELSE <<>>],
    [a \in Ids |-> IF a = <<9>> THEN <<"u2", "u1">>
                   ELSE IF a = <<1, 0>> THEN <<"u1">> ELSE <<"u1">>] }

SeqsUpTo(S, n) == UNION { [1..k -> S] : k \in 0..n }

\* ------------------------------------------------------------------- state
VARIABLES
  usersOf,      \* the collaborator's user table
  \* getUsersFromAccounts
  accountList,  \* the argument
  fstate,       \* per position: state of the getUsers promise
  values,       \* Promise.all's result array
  remaining,    \* Promise.all's count of unresolved elements
  allState,     \* state of the Promise.all promise
  aggState,     \* position of the async function
  aggResult,    \* its resolved value
  completion,   \* positions in the order their promises settled
  jobs,         \* promise jobs queued and not yet run, oldest first
  \* getUsersFromManagedRelationship
  stack,        \* activation records, outermost first
  inflight,     \* requests issued and not yet answered
  wret,         \* completion of the innermost finished activation
  wOutcome,     \* settlement of the outermost call
  wArgs,        \* arguments of the outermost call
  log,          \* requests and replies in the order they happened
  twin,         \* a second call given the same replies, for comparison
  \* getAccountsIdsByRelationship
  tArgs,        \* arguments
  tPc,          \* position of the async function
  tResp,        \* reply of the topology request
  tOutcome      \* settlement of the call

aggVars == <<accountList, fstate, values, remaining, allState, aggState,
             aggResult, completion, jobs>>
walkVars == <<stack, inflight, wret, wOutcome, wArgs, log, twin>>
topoVars == <<tArgs, tPc, tResp, tOutcome>>
vars == <<usersOf, aggVars, walkVars, topoVars>>

NoValue == [kind |-> "none", val |-> <<>>, err |-> "", errLvl |-> 0]

AggIdle ==
  /\ accountList = <<>> /\ fstate = <<>> /\ values = <<>> /\ remaining = 0
  /\ allState = "none" /\ aggState = "idle" /\ aggResult = <<>>
  /\ completion = <<>> /\ jobs = <<>>

WalkIdle ==
  /\ stack = <<>> /\ inflight = {} /\ wret = NoValue /\ wOutcome = NoValue
  /\ wArgs = NoValue /\ log = <<>> /\ twin = NoValue

TopoIdle ==
  /\ tArgs = NoValue /\ tPc = "idle" /\ tResp = NoValue /\ tOutcome = NoValue

\* ------------------------------------------------ getUsersFromAccounts
\* Array.prototype.flat(): one level of nesting removed, order kept.
RECURSIVE Flat(_)
Flat(arrs) ==
  IF arrs = <<>> THEN <<>> ELSE Head(arrs).val \o Flat(Tail(arrs))

\* Promise.all stores a fulfilled element at its input index.
RECURSIVE FirstUnset(_, _)
FirstUnset(vals, i) ==
  IF i > Len(vals) THEN i
  ELSE IF ~vals[i].set THEN i ELSE FirstUnset(vals, i + 1)

StoreByArrival(vals, index, v) ==
  [vals EXCEPT ![FirstUnset(vals, 1)] = [set |-> TRUE, val |-> v]]

StoreElement(vals, index, v) ==
  [vals EXCEPT ![index] = [set |-> TRUE, val |-> v]]

\* Promise.all rejects as soon as one element rejects, and only then.
SettleIgnoringReject(all, rem) ==
  IF all = "pending" /\ rem = 1 THEN "fulfilled" ELSE all

SettleOnReject(all, rem) ==
  IF all = "pending" THEN "rejected" ELSE all

\* A promise job: the resumption of getUsers at its await (line 549), the
\* reaction of Promise.all to one element, or the resumption of
\* getUsersFromAccounts at its await (line 711).
Job(kind, index, ok) == [kind |-> kind, index |-> index, ok |-> ok]

ResumeJob == Job("resume", 0, TRUE)

\* The await of line 711 is the one reaction of the Promise.all promise: it
\* is queued when that promise settles.
QueuedOnSettle(before, after) ==
  IF before = "pending" /\ after # "pending" THEN <<ResumeJob>> ELSE <<>>

InitAgg ==
  /\ usersOf \in UserTables
  /\ accountList \in SeqsUpTo(Ids, MaxAccounts)
  /\ fstate = <<>> /\ values = <<>> /\ remaining = 0
  /\ allState = "none" /\ aggState = "start" /\ aggResult = <<>>
  /\ completion = <<>> /\ jobs = <<>>
  /\ WalkIdle /\ TopoIdle

\* accountList.map(account => this.getUsers(account, ...)) issues every
\* request at once; Promise.all of an empty array is already fulfilled, and
\* the await of a fulfilled promise queues its resumption.
AggCall ==
  /\ aggState = "start"
  /\ fstate' = [i \in 1..Len(accountList) |-> "pending"]
  /\ values' = [i \in 1..Len(accountList) |-> [set |-> FALSE, val |-> <<>>]]
  /\ remaining' = Len(accountList)
  /\ allState' = IF Len(accountList) = 0 THEN "fulfilled" ELSE "pending"
  /\ aggState' = "await"
  /\ jobs' = IF Len(accountList) = 0 THEN <<ResumeJob>> ELSE <<>>
  /\ UNCHANGED <<usersOf, accountList, aggResult, completion, walkVars,
                 topoVars>>

\* The reply to the GET of position i arrives: client.get settles and the
\* resumption of getUsers at its await is queued, whatever else is queued
\* at that moment.  A request is answered once.
ClientReplied(i, ok) ==
  /\ aggState \in {"await", "resolved", "rejected"}
  /\ i \in DOMAIN fstate /\ fstate[i] = "pending"
  /\ \A j \in DOMAIN jobs :
       ~(jobs[j].kind = "getUsers" /\ jobs[j].index = i)
  /\ jobs' = Append(jobs, Job("getUsers", i, ok))
  /\ UNCHANGED <<usersOf, accountList, fstate, values, remaining, allState,
                 aggState, aggResult, completion, walkVars, topoVars>>

\* getUsers(accountList[i]) resumes and fulfils with users.users; the
\* reaction of Promise.all to it is queued.
FetchResolve(i) ==
  /\ jobs # <<>> /\ Head(jobs) = Job("getUsers", i, TRUE)
  /\ i \in DOMAIN fstate /\ fstate[i] = "pending"
  /\ fstate' = [fstate EXCEPT ![i] = "resolved"]
  /\ completion' = Append(completion, i)
  /\ jobs' = Append(Tail(jobs), Job("element", i, TRUE))
  /\ UNCHANGED <<usersOf, accountList, values, remaining, allState,
                 aggState, aggResult, walkVars, topoVars>>

\* getUsers(accountList[i]) resumes with the rejection and rejects; the
\* reaction of Promise.all to it is queued.
FetchReject(i) ==
  /\ jobs # <<>> /\ Head(jobs) = Job("getUsers", i, FALSE)
  /\ i \in DOMAIN fstate /\ fstate[i] = "pending"
  /\ fstate' = [fstate EXCEPT ![i] = "rejected"]
  /\ completion' = Append(completion, i)
  /\ jobs' = Append(Tail(jobs), Job("element", i, FALSE))
  /\ UNCHANGED <<usersOf, accountList, values, remaining, allState,
                 aggState, aggResult, walkVars, topoVars>>

\* Promise.all reacts to a fulfilled element: the value is stored at the
\* element's index, and the promise fulfils when none remains.
ResolveElement ==
  /\ jobs # <<>> /\ Head(jobs).kind = "element" /\ Head(jobs).ok
  /\ LET i == Head(jobs).index
         settled == IF allState = "pending" /\ remaining = 1
                    THEN "fulfilled" ELSE allState
     IN /\ values' = StoreElement(values, i, usersOf[accountList[i]])
        /\ remaining' = remaining - 1
        /\ allState' = settled
        /\ jobs' = Tail(jobs) \o QueuedOnSettle(allState, settled)
  /\ UNCHANGED <<usersOf, accountList, fstate, aggState, aggResult,
                 completion, walkVars, topoVars>>

\* Promise.all reacts to a rejected element: it rejects on the first one.
RejectElement ==
  /\ jobs # <<>> /\ Head(jobs).kind = "element" /\ ~Head(jobs).ok
  /\ LET settled == SettleOnReject(allState, remaining)
     IN /\ allState' = settled
        /\ jobs' = Tail(jobs) \o QueuedOnSettle(allState, settled)
  /\ UNCHANGED <<usersOf, accountList, fstate, values, remaining, aggState,
                 aggResult, completion, walkVars, topoVars>>

\* The await resumes: (await Promise.all(...)).flat(), or the rejection
\* leaves the async function.
AggResume ==
  /\ jobs # <<>> /\ Head(jobs) = ResumeJob
  /\ aggState = "await"
  /\ allState \in {"fulfilled", "rejected"}
  /\ IF allState = "fulfilled"
     THEN aggState' = "resolved" /\ aggResult' = Flat(values)
     ELSE aggState' = "rejected" /\ aggResult' = aggResult
  /\ jobs' = Tail(jobs)
  /\ UNCHANGED <<usersOf, accountList, fstate, values, remaining, allState,
                 completion, walkVars, topoVars>>

NextAgg ==
  \/ AggCall
  \/ \E i \in 1..MaxAccounts + 1, ok \in BOOLEAN : ClientReplied(i, ok)
  \/ \E i \in 1..MaxAccounts + 1 : FetchResolve(i)
  \/ \E i \in 1..MaxAccounts + 1 : FetchReject(i)
  \/ ResolveElement
  \/ RejectElement
  \/ AggResume

SpecAgg == InitAgg /\ [][NextAgg]_vars

\* ------------------------------------- getUsersFromManagedRelationship
\* parseInt(id, 10) of a digit string.
RECURSIVE ParseIntFrom(_, _)
ParseIntFrom(digits, acc) ==
  IF digits = <<>> THEN acc
  ELSE ParseIntFrom(Tail(digits), acc * Radix + Head(digits))

ParseInt(id) == ParseIntFrom(id, 0)

\* Text order of two ids, as < on strings would give it.
RECURSIVE TextLess(_, _)
TextLess(a, b) ==
  IF b = <<>> THEN FALSE
  ELSE IF a = <<>> THEN TRUE
  ELSE IF Head(a) # Head(b) THEN Head(a) < Head(b)
  ELSE TextLess(Tail(a), Tail(b))

CompareText(a, b) ==
  IF TextLess(b, a) THEN 0 - 1 ELSE IF TextLess(a, b) THEN 1 ELSE 0

\* The comparator (a, b) => parseInt(b.id, 10) - parseInt(a.id, 10).
Compare(a, b) ==
  ParseInt(b) - ParseInt(a)

\* Array.prototype.sort: stable; an element is placed before the first
\* one it compares less than.
RECURSIVE InsertSorted(_, _)
InsertSorted(x, sorted) ==
  IF sorted = <<>> THEN <<x>>
  ELSE IF Compare(x, Head(sorted)) < 0 THEN <<x>> \o sorted
  ELSE <<Head(sorted)>> \o InsertSorted(x, Tail(sorted))

RECURSIVE SortFrom(_, _)
SortFrom(rest, sorted) ==
  IF rest = <<>> THEN sorted
  ELSE SortFrom(Tail(rest), InsertSorted(Head(rest), sorted))

Sort(managing) == SortFrom(managing, <<>>)

\* failOnError:boolean = true
DefaultFailOnError == TRUE

\* The recursive call passes ( managing[0].id, terminalAccountId ) only.
RecursiveFailOnError(failOnError) == DefaultFailOnError

\* users = users.concat( parentUsers ), guarded by Array.isArray.
ConcatReversed(users, parentUsers) == parentUsers \o users

ConcatParent(users, parentUsers) == users \o parentUsers

\* catch( e ) { if ( failOnError ) { throw e; } }
NeverRethrows(failOnError) == FALSE

Rethrows(failOnError) == failOnError

Frame(leaf, terminal, foe) ==
  [leafAccountId |-> leaf, terminalAccountId |-> terminal,
   failOnError |-> foe, users |-> <<>>, pc |-> "getUsers"]

Req(op, acct, lvl) == [op |-> op, acct |-> acct, lvl |-> lvl]
Ev(ev, op, acct, data) == [ev |-> ev, op |-> op, acct |-> acct, data |-> data]

Value(users) == [kind |-> "value", val |-> users, err |-> "", errLvl |-> 0]
Throw(op, lvl) == [kind |-> "throw", val |-> <<>>, err |-> op, errLvl |-> lvl]

\* An activation starts with  await this.getUsers( leafAccountId, ... ):
\* one request, and nothing else until it is answered.
EntryRequestsUnawaited(leaf, lvl) ==
  {Req("users", leaf, lvl), Req("managing", leaf, lvl)}

EntryRequests(leaf, lvl) ==
  {Req("users", leaf, lvl)}

\* if ( managing.length > 0 ): the only test that decides the ascent.
AscendsBelowTerminal(managing, leaf, terminal) ==
  Len(managing) > 0 /\ leaf # terminal

Ascends(managing, leaf, terminal) ==
  Len(managing) > 0

Top == stack[Len(stack)]
Pop == SubSeq(stack, 1, Len(stack) - 1)
SetTop(f) == [stack EXCEPT ![Len(stack)] = f]

\* Replies of GET /accounts/managing: lists of distinct accounts.
CandLists ==
  { cs \in SeqsUpTo(Ids, MaxCands) :
      \A i, j \in DOMAIN cs : i # j => cs[i] # cs[j] }

\* terminalAccountId of a single call: left out, or an account that a reply
\* can name.  The paired calls below range over every id.
Terminals == {None, <<1, 0>>}

InitWalk ==
  /\ usersOf \in UserTables
  /\ wArgs \in [leafAccountId : Ids, terminalAccountId : Terminals,
                failOnError : BOOLEAN]
  /\ stack = <<>> /\ inflight = {} /\ wret = NoValue /\ wOutcome = NoValue
  /\ log = <<>> /\ twin = NoValue
  /\ AggIdle /\ TopoIdle

\* The caller's invocation: the body runs up to the await of getUsers.
WalkCall ==
  /\ stack = <<>> /\ log = <<>> /\ wOutcome.kind = "none"
  /\ wArgs # NoValue
  /\ stack' = <<Frame(wArgs.leafAccountId, wArgs.terminalAccountId,
                      wArgs.failOnError)>>
  /\ inflight' = EntryRequests(wArgs.leafAccountId, 1)
  /\ log' = <<Ev("req", "users", wArgs.leafAccountId, <<>>)>>
  /\ UNCHANGED <<usersOf, wret, wOutcome, wArgs, aggVars, topoVars>>

\* getUsers fulfils: users is assigned, the try block is entered and
\* getAccountsByRelationship( leafAccountId, "managing" ) is requested.
UsersResolved ==
  /\ stack # <<>> /\ Top.pc = "getUsers"
  /\ \E r \in inflight :
       /\ r.op = "users" /\ r.lvl = Len(stack)
       /\ stack' = SetTop([Top EXCEPT !.users = usersOf[r.acct],
                                      !.pc = "managing"])
       /\ inflight' = (inflight \ {r})
                        \cup {Req("managing", Top.leafAccountId, Len(stack))}
       /\ log' = log \o <<Ev("ok", "users", r.acct, <<>>),
                          Ev("req", "managing", Top.leafAccountId, <<>>)>>
  /\ UNCHANGED <<usersOf, wret, wOutcome, wArgs, aggVars, topoVars>>

\* getUsers rejects: the await is outside the try block, the activation
\* rejects whatever failOnError is.
UsersRejected ==
  /\ stack # <<>> /\ Top.pc = "getUsers"
  /\ \E r \in inflight :
       /\ r.op = "users" /\ r.lvl = Len(stack)
       /\ inflight' = inflight \ {r}
       /\ log' = Append(log, Ev("fail", "users", r.acct, <<>>))
       /\ wret' = Throw("users", Len(stack))
  /\ stack' = Pop
  /\ UNCHANGED <<usersOf, wOutcome, wArgs, aggVars, topoVars>>

\* The 'managing' query fulfils with the accounts cs.  Empty: the
\* activation returns users.  Otherwise the reply is sorted and the walker
\* calls itself for managing[0].id.
ManagingResolved(cs) ==
  /\ stack # <<>> /\ Top.pc = "managing"
  /\ Len(stack) < MaxDepth \/ cs = <<>>
  /\ \E r \in inflight :
       /\ r.op = "managing" /\ r.lvl = Len(stack)
       /\ IF Ascends(cs, Top.leafAccountId, Top.terminalAccountId)
          THEN LET parent == Sort(cs)[1] IN
               /\ stack' = Append(SetTop([Top EXCEPT !.pc = "recurse"]),
                                  Frame(parent, Top.terminalAccountId,
                                        RecursiveFailOnError(Top.failOnError)))
               /\ inflight' = (inflight \ {r})
                                \cup EntryRequests(parent, Len(stack) + 1)
               /\ log' = log \o <<Ev("ok", "managing", r.acct, cs),
                                  Ev("req", "users", parent, <<>>)>>
               /\ wret' = wret
          ELSE /\ stack' = Pop
               /\ inflight' = inflight \ {r}
               /\ log' = Append(log, Ev("ok", "managing", r.acct, cs))
               /\ wret' = Value(Top.users)
  /\ UNCHANGED <<usersOf, wOutcome, wArgs, aggVars, topoVars>>

\* The 'managing' query rejects inside the try block: the catch clause
\* rethrows when failOnError, else the activation returns users.
ManagingRejected ==
  /\ stack # <<>> /\ Top.pc = "managing"
  /\ \E r \in inflight :
       /\ r.op = "managing" /\ r.lvl = Len(stack)
       /\ inflight' = inflight \ {r}
       /\ log' = Append(log, Ev("fail", "managing", r.acct, <<>>))
  /\ wret' = IF Rethrows(Top.failOnError)
             THEN Throw("managing", Len(stack))
             ELSE Value(Top.users)
  /\ stack' = Pop
  /\ UNCHANGED <<usersOf, wOutcome, wArgs, aggVars, topoVars>>

\* The awaited recursive call has settled: its users are appended, or its
\* rejection reaches the catch clause; the activation then completes.
RecursionSettled ==
  /\ stack # <<>> /\ Top.pc = "recurse" /\ wret.kind # "none"
  /\ wret' = IF wret.kind = "value"
             THEN Value(ConcatParent(Top.users, wret.val))
             ELSE IF Rethrows(Top.failOnError) THEN wret
             ELSE Value(Top.users)
  /\ stack' = Pop
  /\ UNCHANGED <<usersOf, inflight, wOutcome, wArgs, log, aggVars, topoVars>>

\* The outermost activation has completed: the caller's promise settles.
WalkSettled ==
  /\ stack = <<>> /\ wret.kind # "none" /\ wOutcome.kind = "none"
  /\ wOutcome' = wret
  /\ wret' = NoValue
  /\ UNCHANGED <<usersOf, stack, inflight, wArgs, log, aggVars, topoVars>>

NextWalk ==
  \/ WalkCall /\ UNCHANGED twin
  \/ UsersResolved /\ UNCHANGED twin
  \/ UsersRejected /\ UNCHANGED twin
  \/ \E cs \in CandLists : ManagingResolved(cs) /\ UNCHANGED twin
  \/ ManagingRejected /\ UNCHANGED twin
  \/ RecursionSettled /\ UNCHANGED twin
  \/ WalkSettled /\ UNCHANGED twin

SpecWalk == InitWalk /\ [][NextWalk]_vars

\* ------------------------- the walker over one fixed account graph
\* The 'managing' links of an account do not change during a call: a query
\* repeated for an account is answered as it was answered before.  The
\* environment serves MaxDepth levels, at least as many as there are
\* accounts, so the only ascent it cuts short is one going round a cycle.
SameAsBefore(acct, cs) ==
  \A j \in DOMAIN log :
    (log[j].ev = "ok" /\ log[j].op = "managing" /\ log[j].acct = acct)
      => log[j].data = cs

GraphManagingResolved(cs) ==
  /\ stack # <<>>
  /\ SameAsBefore(Top.leafAccountId, cs)
  /\ ManagingResolved(cs)

NextCycle ==
  \/ WalkCall /\ UNCHANGED twin
  \/ UsersResolved /\ UNCHANGED twin
  \/ UsersRejected /\ UNCHANGED twin
  \/ \E cs \in CandLists : GraphManagingResolved(cs) /\ UNCHANGED twin
  \/ ManagingRejected /\ UNCHANGED twin
  \/ RecursionSettled /\ UNCHANGED twin
  \/ WalkSettled /\ UNCHANGED twin

SpecCycle == InitWalk /\ [][NextCycle]_vars

\* ------------------- two calls of the walker on the same replies
\* The second call differs from the first in terminalAccountId only.  It
\* is the same code, kept in one record, and takes each step together with
\* the first call, on the same reply.
TwTop(t) == t.stack[Len(t.stack)]
TwPop(t) == SubSeq(t.stack, 1, Len(t.stack) - 1)
TwSetTop(t, f) == [t.stack EXCEPT ![Len(t.stack)] = f]

TwinStart(leaf, terminal, foe) ==
  [args |-> [leafAccountId |-> leaf, terminalAccountId |-> terminal,
             failOnError |-> foe],
   stack |-> <<>>, inflight |-> {}, wret |-> NoValue, wOutcome |-> NoValue,
   log |-> <<>>]

TwinCall(t) ==
  [t EXCEPT
     !.stack = <<Frame(t.args.leafAccountId, t.args.terminalAccountId,
                       t.args.failOnError)>>,
     !.inflight = EntryRequests(t.args.leafAccountId, 1),
     !.log = <<Ev("req", "users", t.args.leafAccountId, <<>>)>>]

TwinAwaits(t, op) ==
  /\ t.stack # <<>>
  /\ TwTop(t).pc = (IF op = "users" THEN "getUsers" ELSE "managing")
  /\ \E r \in t.inflight : r.op = op /\ r.lvl = Len(t.stack)

TwinReq(t, op) ==
  CHOOSE r \in t.inflight : r.op = op /\ r.lvl = Len(t.stack)

TwinUsersResolved(t, tbl) ==
  LET r == TwinReq(t, "users") IN
  [t EXCEPT
     !.stack = TwSetTop(t, [TwTop(t) EXCEPT !.users = tbl[r.acct],
                                            !.pc = "managing"]),
     !.inflight = (t.inflight \ {r})
                    \cup {Req("managing", TwTop(t).leafAccountId,
                              Len(t.stack))},
     !.log = t.log \o <<Ev("ok", "users", r.acct, <<>>),
                        Ev("req", "managing", TwTop(t).leafAccountId, <<>>)>>]

TwinUsersRejected(t) ==
  LET r == TwinReq(t, "users") IN
  [t EXCEPT
     !.stack = TwPop(t),
     !.inflight = t.inflight \ {r},
     !.log = Append(t.log, Ev("fail", "users", r.acct, <<>>)),
     !.wret = Throw("users", Len(t.stack))]

TwinManagingResolved(t, cs) ==
  LET r == TwinReq(t, "managing")
      parent == Sort(cs)[1]
  IN
  IF Ascends(cs, TwTop(t).leafAccountId, TwTop(t).terminalAccountId)
  THEN [t EXCEPT
          !.stack = Append(TwSetTop(t, [TwTop(t) EXCEPT !.pc = "recurse"]),
                           Frame(parent, TwTop(t).terminalAccountId,
                                 RecursiveFailOnError(TwTop(t).failOnError))),
          !.inflight = (t.inflight \ {r})
                         \cup EntryRequests(parent, Len(t.stack) + 1),
          !.log = t.log \o <<Ev("ok", "managing", r.acct, cs),
                             Ev("req", "users", parent, <<>>)>>]
  ELSE [t EXCEPT
          !.stack = TwPop(t),
          !.inflight = t.inflight \ {r},
          !.log = Append(t.log, Ev("ok", "managing", r.acct, cs)),
          !.wret = Value(TwTop(t).users)]

TwinManagingRejected(t) ==
  LET r == TwinReq(t, "managing") IN
  [t EXCEPT
     !.stack = TwPop(t),
     !.inflight = t.inflight \ {r},
     !.log = Append(t.log, Ev("fail", "managing", r.acct, <<>>)),
     !.wret = IF Rethrows(TwTop(t).failOnError)
              THEN Throw("managing", Len(t.stack))
              ELSE Value(TwTop(t).users)]

TwinAwaitsRecursion(t) ==
  t.stack # <<>> /\ TwTop(t).pc = "recurse" /\ t.wret.kind # "none"

TwinRecursionSettled(t) ==
  [t EXCEPT
     !.stack = TwPop(t),
     !.wret = IF t.wret.kind = "value"
              THEN Value(ConcatParent(TwTop(t).users, t.wret.val))
              ELSE IF Rethrows(TwTop(t).failOnError) THEN t.wret
              ELSE Value(TwTop(t).users)]

TwinCompleted(t) ==
  t.stack = <<>> /\ t.wret.kind # "none" /\ t.wOutcome.kind = "none"

TwinSettled(t) ==
  [t EXCEPT !.wOutcome = t.wret, !.wret = NoValue]

\* The first call names a terminal account, the second leaves it out.
InitPair ==
  /\ usersOf \in UserTables
  /\ wArgs \in [leafAccountId : Ids, terminalAccountId : Ids,
                failOnError : BOOLEAN]
  /\ twin = TwinStart(wArgs.leafAccountId, None, wArgs.failOnError)
  /\ stack = <<>> /\ inflight = {} /\ wret = NoValue /\ wOutcome = NoValue
  /\ log = <<>>
  /\ AggIdle /\ TopoIdle

PairCall ==
  /\ WalkCall
  /\ twin.stack = <<>> /\ twin.log = <<>> /\ twin.wOutcome.kind = "none"
  /\ twin' = TwinCall(twin)

PairUsersResolved ==
  /\ UsersResolved
  /\ TwinAwaits(twin, "users")
  /\ twin' = TwinUsersResolved(twin, usersOf)

PairUsersRejected ==
  /\ UsersRejected
  /\ TwinAwaits(twin, "users")
  /\ twin' = TwinUsersRejected(twin)

PairManagingResolved(cs) ==
  /\ ManagingResolved(cs)
  /\ TwinAwaits(twin, "managing")
  /\ twin' = TwinManagingResolved(twin, cs)

PairManagingRejected ==
  /\ ManagingRejected
  /\ TwinAwaits(twin, "managing")
  /\ twin' = TwinManagingRejected(twin)

PairRecursionSettled ==
  /\ RecursionSettled
  /\ TwinAwaitsRecursion(twin)
  /\ twin' = TwinRecursionSettled(twin)

PairSettled ==
  /\ WalkSettled
  /\ TwinCompleted(twin)
  /\ twin' = TwinSettled(twin)

NextPair ==
  \/ PairCall
  \/ PairUsersResolved
  \/ PairUsersRejected
  \/ \E cs \in CandLists : PairManagingResolved(cs)
  \/ PairManagingRejected
  \/ PairRecursionSettled
  \/ PairSettled

SpecPair == InitPair /\ [][NextPair]_vars

\* ---------------------------------------- getAccountsIdsByRelationship
\* An AIMSTopology node carries its id and, under the name of the queried
\* relationship, the array of directly related nodes; the field may be
\* missing, which is what Array.isArray tells apart.
Relationships == { "managed", "managing" }

NotArray == [isArray |-> FALSE, items |-> <<>>]
Arr(xs) == [isArray |-> TRUE, items |-> xs]

Node(id, rel, field) ==
  [id |-> id,
   managed |-> IF rel = "managed" THEN field ELSE NotArray,
   managing |-> IF rel = "managing" THEN field ELSE NotArray]

\* a[relationship]
AxisOf(a, relationship) ==
  IF relationship = "managed" THEN a.managed ELSE a.managing

\* The forests of exactly n nodes the service can render along rel.
RECURSIVE ForestsOf(_, _)
TreesOf(rel, n) ==
  IF n = 1
  THEN { Node(id, rel, f) : id \in TopoIds, f \in {NotArray, Arr(<<>>)} }
  ELSE { Node(tf[1], rel, Arr(tf[2])) :
           tf \in TopoIds \X ForestsOf(rel, n - 1) }

ForestsOf(rel, n) ==
  IF n = 0 THEN { <<>> }
  ELSE UNION { { <<tf[1]>> \o tf[2] :
                   tf \in TreesOf(rel, k) \X ForestsOf(rel, n - k) } :
               k \in 1..n }

Forests(rel) == UNION { ForestsOf(rel, n) : n \in 0..MaxNodes }

\* Bodies of GET /accounts/:relationship/topology: with or without the
\* 'topology' property, whose root has or lacks the relationship array.
Body(hasTopology, root) ==
  [kind |-> "body", hasTopology |-> hasTopology, topology |-> root]

NoRoot == Node(None, "managed", NotArray)

Replies(accountId, rel) ==
  { [kind |-> "failed", hasTopology |-> FALSE, topology |-> NoRoot],
    Body(FALSE, NoRoot),
    Body(TRUE, Node(accountId, rel, NotArray)) }
  \cup { Body(TRUE, Node(accountId, rel, Arr(f))) : f \in Forests(rel) }

\* function getIds(accounts): accounts.flatMap(a => [a.id, ...getIds(
\*   Array.isArray(a[relationship]) ? a[relationship] : [])])
RECURSIVE getIdsChildrenFirst(_, _)
getIdsChildrenFirst(accounts, relationship) ==
  IF accounts = <<>> THEN <<>>
  ELSE LET a == Head(accounts)
           sub == IF AxisOf(a, relationship).isArray
                  THEN AxisOf(a, relationship).items ELSE <<>>
       IN (getIdsChildrenFirst(sub, relationship) \o <<a.id>>)
            \o getIdsChildrenFirst(Tail(accounts), relationship)

RECURSIVE getIdsRec(_, _)
getIdsRec(accounts, relationship) ==
  IF accounts = <<>> THEN <<>>
  ELSE LET a == Head(accounts)
           sub == IF AxisOf(a, relationship).isArray
                  THEN AxisOf(a, relationship).items ELSE <<>>
       IN (<<a.id>> \o getIdsRec(sub, relationship))
            \o getIdsRec(Tail(accounts), relationship)

getIds(accounts, relationship) ==
  getIdsRec(accounts, relationship)

\* const first = addCurrentId ? [accountId] : [];
firstAlways(addCurrentId, accountId) == <<accountId>>

first(addCurrentId, accountId) ==
  IF addCurrentId THEN <<accountId>> ELSE <<>>

TValue(ids) == [kind |-> "value", val |-> ids, err |-> "", errLvl |-> 0]
TThrow(what) == [kind |-> "throw", val |-> <<>>, err |-> what, errLvl |-> 0]

InitTopo ==
  /\ usersOf \in UserTables
  /\ tArgs \in [accountId : TopoIds, relationship : Relationships,
                addCurrentId : BOOLEAN]
  /\ tPc = "start" /\ tResp = NoValue /\ tOutcome = NoValue
  /\ AggIdle /\ WalkIdle

\* getAccountsIdsByRelationship calls getAccountRelationshipTopology, which
\* issues the GET and awaits it.
TopoCall ==
  /\ tPc = "start"
  /\ tPc' = "awaitGet"
  /\ UNCHANGED <<usersOf, tArgs, tResp, tOutcome, aggVars, walkVars>>

\* The GET settles and getAccountRelationshipTopology settles with it:
\* rejected with the transport failure, or fulfilled with response.topology
\* as it is.  getAccountsIdsByRelationship is still pending at its await.
TopoReplied ==
  /\ tPc = "awaitGet"
  /\ \E reply \in Replies(tArgs.accountId, tArgs.relationship) :
       tResp' = reply
  /\ tPc' = "awaitTopology"
  /\ UNCHANGED <<usersOf, tArgs, tOutcome, aggVars, walkVars>>

\* The await of line 697 resumes with the rejection, which is not caught:
\* getAccountsIdsByRelationship rejects with it.
TopologyRejected ==
  /\ tPc = "awaitTopology"
  /\ tResp.kind = "failed"
  /\ tPc' = "done"
  /\ tOutcome' = TThrow("transport")
  /\ UNCHANGED <<usersOf, tArgs, tResp, aggVars, walkVars>>

\* The await of line 697 resumes with topology.  topology[relationship]
\* on undefined, and flatMap on a missing array, raise a TypeError.
IdsComputed ==
  /\ tPc = "awaitTopology"
  /\ tResp.kind = "body"
  /\ tPc' = "done"
  /\ tOutcome' =
       IF ~tResp.hasTopology THEN TThrow("TypeError")
       ELSE IF ~AxisOf(tResp.topology, tArgs.relationship).isArray
            THEN TThrow("TypeError")
       ELSE TValue(first(tArgs.addCurrentId, tArgs.accountId)
                   \o getIds(AxisOf(tResp.topology,
                                    tArgs.relationship).items,
                             tArgs.relationship))
  /\ UNCHANGED <<usersOf, tArgs, tResp, aggVars, walkVars>>

NextTopo ==
  \/ TopoCall
  \/ TopoReplied
  \/ TopologyRejected
  \/ IdsComputed

SpecTopo == InitTopo /\ [][NextTopo]_vars

\* ----------------------------------------------------------------- claims
RECURSIVE ConcatUsersOf(_, _)
ConcatUsersOf(tbl, accts) ==
  IF accts = <<>> THEN <<>>
  ELSE tbl[Head(accts)] \o ConcatUsersOf(tbl, Tail(accts))

\* C1: when getUsersFromAccounts resolves, its value is the users of
\* accountList[1], then accountList[2], ... in input position order,
\* whatever the order in which the getUsers promises settled.
C1_InputOrder ==
  aggState = "resolved" => aggResult = ConcatUsersOf(usersOf, accountList)

\* A later position settled before an earlier one, both with users, and the
\* call resolved.
C1_Witness ==
  /\ aggState = "resolved"
  /\ Len(completion) = 3
  /\ completion[1] > completion[3]
  /\ usersOf[accountList[1]] # usersOf[accountList[3]]
  /\ usersOf[accountList[1]] # <<>> /\ usersOf[accountList[3]] # <<>>

\* C2: once any getUsers promise of the list has rejected, the call never
\* resolves with a user list: Promise.all never fulfils, and when the
\* queued jobs have run the call has rejected, in every settle order.
C2_AllOrNothing ==
  (\E i \in DOMAIN fstate : fstate[i] = "rejected")
    => /\ aggState # "resolved"
       /\ aggResult = <<>>
       /\ allState # "fulfilled"
       /\ jobs = <<>> => (allState = "rejected" /\ aggState = "rejected")

\* The middle fetch rejected after the others had fulfilled, and the call
\* rejected.
C2_Witness ==
  /\ aggState = "rejected"
  /\ Len(accountList) = 3
  /\ fstate[1] = "resolved" /\ fstate[3] = "resolved"
  /\ fstate[2] = "rejected"
  /\ completion[3] = 2

\* --- the walker's history, read off the log
RECURSIVE Select(_, _, _)
Select(l, ev, op) ==
  IF l = <<>> THEN <<>>
  ELSE IF Head(l).ev = ev /\ Head(l).op = op
       THEN <<Head(l).acct>> \o Select(Tail(l), ev, op)
       ELSE Select(Tail(l), ev, op)

UsersFetched == Select(log, "ok", "users")
UsersRequested == Select(log, "req", "users")
ManagingFailed == Select(log, "fail", "managing") # <<>>
AnyFailed == \E j \in DOMAIN log : log[j].ev = "fail"
WalkDone == wOutcome.kind # "none"

\* C3: with failOnError=false, a 'managing' failure at level k makes the
\* call return the users of levels 1..k in ascent order, at every k.
C3_TolerantAtEveryLevel ==
  (WalkDone /\ ~wArgs.failOnError /\ ManagingFailed)
    => /\ wOutcome.kind = "value"
       /\ wOutcome.val = ConcatUsersOf(usersOf, UsersFetched)

\* C4: with failOnError=true, a 'managing' failure at any level makes the
\* call reject with that failure; no user list is returned.
C4_StrictRejects ==
  (wArgs # NoValue /\ wArgs.failOnError /\ ManagingFailed)
    => /\ wOutcome.kind # "value"
       /\ WalkDone => /\ wOutcome.kind = "throw"
                      /\ wOutcome.err = "managing"
                      /\ wOutcome.errLvl = Len(UsersFetched)
                      /\ wOutcome.val = <<>>

\* The query failed at the third level, after three levels' users had been
\* fetched, and the call rejected.
C4_Witness ==
  /\ WalkDone /\ wArgs.failOnError /\ ManagingFailed
  /\ Len(UsersFetched) = 3
  /\ ConcatUsersOf(usersOf, UsersFetched) # <<>>
  /\ wOutcome.kind = "throw"

\* C8: after every non-empty 'managing' reply the next request is the user
\* fetch of one account of that reply, one of greatest parseInt value,
\* wherever it stood in the reply; no other user fetch follows the reply.
C8_GreatestNumericId ==
  /\ \A j \in DOMAIN log :
       (log[j].ev = "ok" /\ log[j].op = "managing" /\ log[j].data # <<>>)
         => /\ j + 1 \in DOMAIN log
            /\ log[j + 1].ev = "req" /\ log[j + 1].op = "users"
            /\ \E i \in DOMAIN log[j].data : log[j].data[i] = log[j + 1].acct
            /\ \A i \in DOMAIN log[j].data :
                 ParseInt(log[j + 1].acct) >= ParseInt(log[j].data[i])
  /\ \A j \in DOMAIN log :
       (j > 1 /\ log[j].ev = "req" /\ log[j].op = "users")
         => (log[j - 1].ev = "ok" /\ log[j - 1].op = "managing")

\* A reply listed "9" before "10" and the walker went on to "10".
C8_Witness ==
  \E j \in DOMAIN log :
    /\ log[j].ev = "ok" /\ log[j].op = "managing"
    /\ log[j].data = << <<9>>, <<1, 0>> >>
    /\ log[j + 1].acct = <<1, 0>>
    /\ \E k \in DOMAIN log :
         k > j /\ log[k].ev = "ok" /\ log[k].op = "users"

\* C9: when no request fails, the call returns the users of the leaf, then
\* of the chosen parent, then of its chosen parent, ..., every list as it
\* was fetched: nothing dropped, nothing reordered.
C9_NearestFirst ==
  (WalkDone /\ ~AnyFailed)
    => /\ wOutcome.kind = "value"
       /\ UsersFetched = UsersRequested
       /\ UsersFetched[1] = wArgs.leafAccountId
       /\ wOutcome.val = ConcatUsersOf(usersOf, UsersFetched)

\* Three levels answered, the same user came back at two of them and is in
\* the result twice, and the result is not in sorted order.
C9_Witness ==
  /\ WalkDone /\ ~AnyFailed
  /\ Len(UsersFetched) = 3
  /\ wOutcome.val = <<"u2", "u1", "u1">>

\* --- the topology as a set of positions
Kids(a, rel) ==
  IF AxisOf(a, rel).isArray THEN AxisOf(a, rel).items ELSE <<>>

RECURSIVE PathsOf(_, _)
PathsOf(forest, rel) ==
  UNION { {<<i>>} \cup { <<i>> \o p : p \in PathsOf(Kids(forest[i], rel), rel) } :
          i \in DOMAIN forest }

RECURSIVE NodeAt(_, _, _)
NodeAt(forest, p, rel) ==
  IF Len(p) = 1 THEN forest[p[1]]
  ELSE NodeAt(Kids(forest[p[1]], rel), Tail(p), rel)

\* p is visited before q: an ancestor before its descendants, an earlier
\* sibling's subtree before a later sibling.
RECURSIVE PathBefore(_, _)
PathBefore(p, q) ==
  IF p = <<>> THEN q # <<>>
  ELSE IF q = <<>> THEN FALSE
  ELSE IF p[1] # q[1] THEN p[1] < q[1]
  ELSE PathBefore(Tail(p), Tail(q))

PreOrderIds(forest, rel) ==
  LET ps == PathsOf(forest, rel) IN
  [k \in 1..Cardinality(ps) |->
     NodeAt(forest,
            CHOOSE p \in ps :
              Cardinality({ q \in ps : PathBefore(q, p) }) = k - 1,
            rel).id]

TopoReturned == tPc = "done" /\ tOutcome.kind = "value"
RootForest == AxisOf(tResp.topology, tArgs.relationship).items

\* C5: the ids contributed by getIds are the pre-order walk of the root's
\* forest along the queried relationship: one id per node position, a node
\* before its children, a subtree before the next sibling; a node whose
\* relationship field is not an array contributes its id alone.
C5_PreOrder ==
  TopoReturned =>
    LET want == PreOrderIds(RootForest, tArgs.relationship)
        skip == Len(tOutcome.val) - Len(want)
    IN /\ skip >= 0
       /\ SubSeq(tOutcome.val, skip + 1, Len(tOutcome.val)) = want

\* A forest B -> [D], C with C carrying B's id and no array of its own.
C5_Witness ==
  /\ TopoReturned
  /\ Len(RootForest) = 2
  /\ Len(Kids(RootForest[1], tArgs.relationship)) = 1
  /\ ~AxisOf(RootForest[2], tArgs.relationship).isArray
  /\ RootForest[1].id = RootForest[2].id
  /\ Kids(RootForest[1], tArgs.relationship)[1].id # RootForest[1].id
  /\ Len(tOutcome.val) >= 3

\* C6: with addCurrentId the result is accountId followed by the flattened
\* ids of the root's children; without it, those flattened ids alone.
C6_AddCurrentId ==
  TopoReturned =>
    LET flat == PreOrderIds(RootForest, tArgs.relationship) IN
    IF tArgs.addCurrentId
    THEN tOutcome.val = <<tArgs.accountId>> \o flat
    ELSE tOutcome.val = flat

\* addCurrentId=false over two children, neither being the account.
C6_Witness ==
  /\ TopoReturned
  /\ ~tArgs.addCurrentId
  /\ Len(RootForest) = 2
  /\ Len(tOutcome.val) = 2
  /\ \A i \in DOMAIN tOutcome.val : tOutcome.val[i] # tArgs.accountId

\* The flattening C7 describes: a node whose id is already on its ancestor
\* path is neither emitted nor descended into.
RECURSIVE CutIds(_, _, _)
CutIds(forest, onPath, rel) ==
  IF forest = <<>> THEN <<>>
  ELSE LET a == Head(forest) IN
       (IF a.id \in onPath THEN <<>>
        ELSE <<a.id>> \o CutIds(Kids(a, rel), onPath \cup {a.id}, rel))
         \o CutIds(Tail(forest), onPath, rel)

\* C7: flattening ends without error on every topology and cuts the axis
\* where an id reappears on its own ancestor path; a node A whose
\* relationship child is A again flattens to [A].
C7_CycleCut ==
  TopoReturned =>
    tOutcome.val =
      (IF tArgs.addCurrentId THEN <<tArgs.accountId>> ELSE <<>>)
        \o CutIds(RootForest, {}, tArgs.relationship)

\* C10: a reply without 'topology', or whose root lacks the relationship
\* array, makes the call fail with a validation error, never a transport
\* failure and never an id list.
C10_ValidationError ==
  (/\ tPc = "done"
   /\ tResp.kind = "body"
   /\ \/ ~tResp.hasTopology
      \/ ~AxisOf(tResp.topology, tArgs.relationship).isArray)
    => /\ tOutcome.kind = "throw"
       /\ tOutcome.err = "validation"

\* C11: the walker ends on every account graph: it stops ascending at an
\* empty 'managing' reply, and on a cycle of 'managing' links it stops by
\* itself at a maximum depth and fails closed.  Having come back to an
\* account it has been through, it is therefore never found still
\* ascending, with the next user fetch under way, at the last level the
\* environment serves.
C11_StopsOnCycle ==
  \A r \in inflight :
    (/\ r.op = "users"
     /\ \E i \in DOMAIN UsersFetched : UsersFetched[i] = r.acct)
      => r.lvl < MaxDepth

\* --- the requests of the log, in the order they were issued
RECURSIVE Issued(_)
Issued(l) ==
  IF l = <<>> THEN <<>>
  ELSE IF Head(l).ev = "req" THEN <<Head(l)>> \o Issued(Tail(l))
  ELSE Issued(Tail(l))

\* C12: the walker has at most one request in flight; it issues users(1),
\* managing(1), users(2), managing(2), ... in that order, each one only
\* after the one before it was answered successfully, so the user fetch of
\* a level follows the fulfilled 'managing' query of the level below.
C12_Sequential ==
  /\ Cardinality(inflight) <= 1
  /\ LET issued == Issued(log)
     IN  \A k \in DOMAIN issued :
           /\ issued[k].op = IF k % 2 = 1 THEN "users" ELSE "managing"
           /\ k % 2 = 0 => issued[k].acct = issued[k - 1].acct
  /\ \A j \in DOMAIN log :
       (j > 1 /\ log[j].ev = "req")
         => /\ log[j - 1].ev = "ok"
            /\ log[j - 1].op = IF log[j].op = "users" THEN "managing"
                               ELSE "users"
  /\ inflight # {} =>
       \E r \in inflight :
         /\ log[Len(log)].ev = "req"
         /\ log[Len(log)].op = r.op /\ log[Len(log)].acct = r.acct
         /\ r.lvl = Len(stack)

\* The user fetch of the third level is the one request in flight.
C12_Witness ==
  /\ Len(stack) = 3
  /\ Len(Issued(log)) = 5
  /\ Cardinality(inflight) = 1
  /\ \E r \in inflight : r.op = "users" /\ r.lvl = 3

\* --- a stack with the terminal ids blanked
Blanked(stk) ==
  [i \in DOMAIN stk |-> [stk[i] EXCEPT !.terminalAccountId = None]]

\* C13: two calls that differ in terminalAccountId only (one names an
\* account, on the ascent chain or off it, the other names none) and get
\* the same replies issue the same requests in the same order, stand at the same
\* place at every step and settle alike; an account equal to the terminal
\* id is ascended through like any other.
C13_TerminalIgnored ==
  /\ twin.args.terminalAccountId # wArgs.terminalAccountId
  /\ twin.log = log
  /\ twin.inflight = inflight
  /\ Blanked(twin.stack) = Blanked(stack)
  /\ twin.wret = wret
  /\ twin.wOutcome = wOutcome
  /\ \A i \in DOMAIN stack :
       stack[i].terminalAccountId = wArgs.terminalAccountId

\* The first call was given a terminal id that lies on its chain below the
\* top, the second none; both returned the users of the whole chain.
C13_Witness ==
  /\ WalkDone /\ wOutcome.kind = "value"
  /\ twin.args.terminalAccountId = None
  /\ Len(UsersFetched) = 3
  /\ UsersFetched[2] = wArgs.terminalAccountId
  /\ UsersFetched[3] # wArgs.terminalAccountId
  /\ wOutcome.val = ConcatUsersOf(usersOf, UsersFetched)
  /\ usersOf[UsersFetched[3]] # <<>>

====
